---------------------------- MODULE Spec2Model ----------------------------
(***************************************************************************)
(* Model of the Zettel Links plugin (src/main.ts): the link formatter of   *)
(* FileSelectModal.onChooseItem and the link-resolution override that      *)
(* ZettelLinksPlugin.setupLinkResolution installs over the host's          *)
(* metadataCache.getFirstLinkpathDest.                                     *)
(*                                                                         *)
(* Strings are sequences of one-character strings, so that the regular     *)
(* expression, trim(), toLowerCase() and includes() are computed character *)
(* by character, as the code computes them.                                *)
(***************************************************************************)
EXTENDS Integers, Sequences, FiniteSets, TLC

(***************************************************************************)
(* Bounds of the model.                                                    *)
(***************************************************************************)
MaxLen == 4          \* longest basename the formatter is applied to
MaxTsLen == 2        \* largest timestampLength the formatter is configured with
MaxInsertions == 1   \* link insertions per behaviour
MaxSaves == 1        \* saveData() calls in flight at the same time
MaxLineLen == 4      \* keys reach the editor while the line is shorter
MaxQueryLen == 2     \* longest query typed into the file selection modal

(***************************************************************************)
(* Characters and strings.                                                 *)
(***************************************************************************)
Digits == {"1", "2"}
Whitespace == {" "}
Letters == {"a", "A"}
Alphabet == Digits \cup Whitespace \cup Letters

\* null, comparable with files, functions and thrown errors (all records)
null == [null |-> TRUE]

\* The values of app.metadataCache.getFirstLinkpathDest: the host's native
\* function and the closure setupLinkResolution installs
native == [fn |-> "native"]
overrideFn == [fn |-> "override"]

\* What a call that throws yields
TypeError == [error |-> "TypeError"]

RECURSIVE StringsUpTo(_, _)
StringsUpTo(chars, n) ==
    IF n = 0 THEN {<<>>}
    ELSE LET shorter == StringsUpTo(chars, n - 1)
         IN  shorter \cup {Append(s, c) : s \in shorter, c \in chars}

\* String.prototype.toLowerCase, on one character and on a string
LowerChar(c) == CASE c = "A" -> "a" [] c = "B" -> "b" [] OTHER -> c
toLowerCase(s) == [i \in 1..Len(s) |-> LowerChar(s[i])]

\* String.prototype.includes: needle occurs in hay as a contiguous substring
includes(hay, needle) ==
    \E i \in 0..(Len(hay) - Len(needle)) :
        \A j \in 1..Len(needle) : hay[i + j] = needle[j]

\* String.prototype.trim: strip the whitespace at both ends
RECURSIVE trimStart(_)
trimStart(s) ==
    IF s = <<>> \/ Head(s) \notin Whitespace THEN s ELSE trimStart(Tail(s))

RECURSIVE trimEnd(_)
trimEnd(s) ==
    IF s = <<>> \/ s[Len(s)] \notin Whitespace THEN s
    ELSE trimEnd(SubSeq(s, 1, Len(s) - 1))

trim(s) == trimEnd(trimStart(s))

(***************************************************************************)
(* Settings.                                                               *)
(***************************************************************************)
DEFAULT_SETTINGS ==
    [extractTimestamps |-> TRUE,
     timestampLength |-> 12,
     showFullPath |-> TRUE,
     appendFileName |-> TRUE,
     enableLinkResolution |-> TRUE,
     enablePartialMatching |-> TRUE]

SettingNames == DOMAIN DEFAULT_SETTINGS

(***************************************************************************)
(* The link formatter of FileSelectModal.onChooseItem.                     *)
(***************************************************************************)
NoMatch == <<>>

\* Mutant of timestampMatch: the pattern without its "^" anchor, which
\* finds the first run of n digits anywhere in the name
timestampMatch_Unanchored(fileName, n) ==
    IF \E i \in 0..(Len(fileName) - n) :
           \A j \in 1..n : fileName[i + j] \in Digits
    THEN LET i == CHOOSE i \in 0..(Len(fileName) - n) :
                      /\ \A j \in 1..n : fileName[i + j] \in Digits
                      /\ \A h \in 0..(i - 1) :
                             \E j \in 1..n : fileName[h + j] \notin Digits
         IN  <<SubSeq(fileName, i + 1, i + n),
               SubSeq(fileName, i + n + 1, Len(fileName))>>
    ELSE NoMatch

\* fileName.match(new RegExp(`^(\\d{n})(.*)$`)): the two capture groups, or
\* NoMatch.  The quantifier {n} takes exactly n digits and (.*) takes
\* whatever follows, further digits included.  (No character of Alphabet is
\* a line terminator, so "." matches each of them.)
timestampMatch(fileName, n) ==
    IF /\ Len(fileName) >= n
       /\ \A i \in 1..n : fileName[i] \in Digits
    THEN <<SubSeq(fileName, 1, n), SubSeq(fileName, n + 1, Len(fileName))>>
    ELSE NoMatch

\* Mutant of format: appendFileName is not combined with "&& restName"
format_NoEmptyCheck(fileName, s) ==
    IF s.extractTimestamps
    THEN LET m == timestampMatch(fileName, s.timestampLength)
         IN  IF m # NoMatch
             THEN IF s.appendFileName
                  THEN <<"[", "[">> \o m[1] \o <<"]", "]", " ">> \o trim(m[2])
                  ELSE <<"[", "[">> \o m[1] \o <<"]", "]">>
             ELSE <<"[", "[">> \o fileName \o <<"]", "]">>
    ELSE <<"[", "[">> \o fileName \o <<"]", "]">>

\* Mutant of format: the extractTimestamps switch is not consulted
format_AlwaysExtract(fileName, s) ==
    LET m == timestampMatch(fileName, s.timestampLength)
    IN  IF m # NoMatch
        THEN LET restName == trim(m[2])
             IN  IF s.appendFileName /\ restName # <<>>
                 THEN <<"[", "[">> \o m[1] \o <<"]", "]", " ">> \o restName
                 ELSE <<"[", "[">> \o m[1] \o <<"]", "]">>
        ELSE <<"[", "[">> \o fileName \o <<"]", "]">>

\* Mutant of format: a name without timestamp is inserted as it is
format_BareName(fileName, s) ==
    IF s.extractTimestamps
    THEN LET m == timestampMatch(fileName, s.timestampLength)
         IN  IF m # NoMatch
             THEN LET timestamp == m[1]
                      restName == trim(m[2])
                  IN  IF s.appendFileName /\ restName # <<>>
                      THEN <<"[", "[">> \o timestamp \o <<"]", "]", " ">> \o restName
                      ELSE <<"[", "[">> \o timestamp \o <<"]", "]">>
             ELSE fileName
    ELSE <<"[", "[">> \o fileName \o <<"]", "]">>

\* Mutant of format: the name is appended only when the modal shows full paths
format_AppendWhenFullPath(fileName, s) ==
    IF s.extractTimestamps
    THEN LET m == timestampMatch(fileName, s.timestampLength)
         IN  IF m # NoMatch
             THEN LET timestamp == m[1]
                      restName == trim(m[2])
                  IN  IF s.appendFileName /\ s.showFullPath /\ restName # <<>>
                      THEN <<"[", "[">> \o timestamp \o <<"]", "]", " ">> \o restName
                      ELSE <<"[", "[">> \o timestamp \o <<"]", "]">>
             ELSE <<"[", "[">> \o fileName \o <<"]", "]">>
    ELSE <<"[", "[">> \o fileName \o <<"]", "]">>

\* insertionText of onChooseItem for a file's basename under settings s
format(fileName, s) ==
    IF s.extractTimestamps
    THEN LET m == timestampMatch(fileName, s.timestampLength)
         IN  IF m # NoMatch
             THEN LET timestamp == m[1]
                      restName == trim(m[2])
                  IN  IF s.appendFileName /\ restName # <<>>
                      THEN <<"[", "[">> \o timestamp \o <<"]", "]", " ">> \o restName
                      ELSE <<"[", "[">> \o timestamp \o <<"]", "]">>
             ELSE <<"[", "[">> \o fileName \o <<"]", "]">>
    ELSE <<"[", "[">> \o fileName \o <<"]", "]">>

(***************************************************************************)
(* Files of the vault.  A TFile is represented by its basename.            *)
(***************************************************************************)
File(b) == [basename |-> b]

\* The files the host may hold, in vault order (app.vault.getMarkdownFiles)
AllFiles == <<File(<<"1", "a">>), File(<<"1", "B">>)>>

RECURSIVE SubSequences(_)
SubSequences(s) ==
    IF s = <<>> THEN {<<>>}
    ELSE LET rest == SubSequences(Tail(s))
         IN  rest \cup {<<Head(s)>> \o r : r \in rest}

Range(s) == {s[i] : i \in 1..Len(s)}

\* References the host asks to resolve
Refs == {<<"1">>, <<"A">>, <<"b">>}

VARIABLES
    phase,                         \* "constructed", "loaded" or "unloaded"
    settings,                      \* ZettelLinksPlugin.settings
    vaultFiles,                    \* app.vault.getMarkdownFiles()
    getFirstLinkpathDest,          \* app.metadataCache.getFirstLinkpathDest
    originalGetFirstLinkpathDest,  \* the saved original, or null
    registered,                    \* a cleanup callback has been registered
    chooserOpen,                   \* ZettelLinksPlugin.chooserOpen
    lastChosenFile,                \* ZettelLinksPlugin.lastChosenFile
    modals,                        \* the LinkChooserModals that are open
    saves,                         \* saveData() calls awaited by saveSettings
    call,                          \* history: the last resolution call, with
                                   \* partial: it reached the partial match
                                   \* search, busy: and chooserOpen was set
    fileModal,                     \* a FileSelectModal is open
    line,                          \* the editor's line
    cursor,                        \* editor.getCursor().ch
    inserted,                      \* history: the replaceRange calls made
    data,                          \* the settings record the host persists
    typed,                         \* history: the text last typed into a
                                   \* text field of the settings tab
    keyEvent,                      \* history: the last keydown event
    suggestions,                   \* history: the last getSuggestions call
    latestTrigger,                 \* ZettelSuggest.latestTrigger
    context,                       \* EditorSuggest.context, kept by the host
    triggered                      \* history: the last onTrigger call

vars == <<phase, settings, vaultFiles, getFirstLinkpathDest,
          originalGetFirstLinkpathDest, registered, chooserOpen,
          lastChosenFile, modals, saves, call, fileModal, line, cursor,
          inserted, data, typed, keyEvent, suggestions, latestTrigger,
          context, triggered>>

resolverVars == <<getFirstLinkpathDest, originalGetFirstLinkpathDest,
                  registered, chooserOpen, lastChosenFile, modals, saves, call>>
editorVars == <<fileModal, line, cursor, inserted>>
historyVars == <<typed, keyEvent>>
suggestVars == <<suggestions, latestTrigger, context, triggered>>

\* Nothing typed yet, no key pressed yet
NoText == [none |-> TRUE, text |-> <<>>]
NoKey == [none |-> TRUE, key |-> "", prevented |-> FALSE, pending |-> FALSE]

\* No getSuggestions call yet, no onTrigger call yet
NoSuggestions == [none |-> TRUE, query |-> <<>>, files |-> <<>>]
NoTrigger == [none |-> TRUE]

NoCall ==
    [via |-> null, linktext |-> <<>>, def |-> null, partial |-> FALSE,
     busy |-> FALSE, opened |-> FALSE, ret |-> null]

(***************************************************************************)
(* Link creation: openFileSearchModal and FileSelectModal.onChooseItem.    *)
(***************************************************************************)
\* editor.replaceRange(text, {ch: at}) on a line
replaceRange(l, text, at) ==
    SubSeq(l, 1, at) \o text \o SubSeq(l, at + 1, Len(l))

\* Ribbon icon or command: open a FileSelectModal on the active editor
openFileSearchModal ==
    /\ phase = "loaded"
    /\ ~fileModal
    /\ Len(inserted) < MaxInsertions
    /\ fileModal' = TRUE
    /\ UNCHANGED <<phase, settings, vaultFiles, data, resolverVars, line,
                   cursor, inserted>>

\* The user selects a file of the modal: the link is inserted at the cursor
onChooseItem(file) ==
    /\ fileModal
    /\ LET insertionText == format(file.basename, settings)
       IN  /\ line' = replaceRange(line, insertionText, cursor)
           /\ inserted' = Append(inserted,
                  [file |-> file, text |-> insertionText, at |-> cursor,
                   before |-> line])
    /\ fileModal' = FALSE
    /\ UNCHANGED <<phase, settings, vaultFiles, data, resolverVars, cursor>>

(***************************************************************************)
(* SpecFormat: the formatter applied to every basename up to MaxLen under  *)
(* every link-creation configuration.                                      *)
(***************************************************************************)
Basenames == StringsUpTo(Alphabet, MaxLen)
TimestampLengths == (1..MaxTsLen) \cup {DEFAULT_SETTINGS.timestampLength}

InitFormat ==
    /\ phase = "loaded"
    /\ \E e \in BOOLEAN, a \in BOOLEAN, n \in TimestampLengths :
          settings = [DEFAULT_SETTINGS EXCEPT !.extractTimestamps = e,
                                              !.appendFileName = a,
                                              !.timestampLength = n]
    /\ \E b \in Basenames : vaultFiles = <<File(b)>>
    /\ getFirstLinkpathDest = overrideFn
    /\ originalGetFirstLinkpathDest = native
    /\ registered = TRUE
    /\ chooserOpen = FALSE
    /\ lastChosenFile = null
    /\ modals = <<>>
    /\ saves = 0
    /\ call = NoCall
    /\ fileModal = FALSE
    /\ line = <<"x", "y">>
    /\ cursor = 1
    /\ inserted = <<>>
    /\ data = settings
    /\ typed = NoText
    /\ keyEvent = NoKey
    /\ suggestions = NoSuggestions
    /\ latestTrigger = null
    /\ context = null
    /\ triggered = NoTrigger

NextFormat ==
    /\ UNCHANGED <<historyVars, suggestVars>>
    /\ \/ openFileSearchModal
       \/ \E f \in Range(vaultFiles) : onChooseItem(f)

SpecFormat == InitFormat /\ [][NextFormat]_vars

(***************************************************************************)
(* Plugin lifecycle and settings.                                          *)
(***************************************************************************)
\* The settings before loadSettings has run
undefined == <<>>

\* What loadData() may return: nothing, or a record an earlier run handed to
\* saveData.  A version of the plugin without link resolution saved the four
\* link-creation fields only.
NoData == <<>>
PersistedData ==
    {NoData,
     [extractTimestamps |-> TRUE, timestampLength |-> 2,
      showFullPath |-> TRUE, appendFileName |-> FALSE],
     [DEFAULT_SETTINGS EXCEPT !.enableLinkResolution = FALSE,
                              !.enablePartialMatching = FALSE]}

\* Mutant of loadSettings: the defaults are assigned last
loadSettings_DefaultsLast(loaded) ==
    [k \in SettingNames |-> DEFAULT_SETTINGS[k]]

\* Object.assign({}, DEFAULT_SETTINGS, data)
loadSettings(loaded) ==
    [k \in SettingNames |->
        IF k \in DOMAIN loaded THEN loaded[k] ELSE DEFAULT_SETTINGS[k]]

\* Mutant of setupLinkResolution: the override is installed without the
\* host's function having been saved
setupLinkResolution_NoSave(s) ==
    LET restored == IF originalGetFirstLinkpathDest # null
                    THEN originalGetFirstLinkpathDest
                    ELSE getFirstLinkpathDest
    IN  IF ~s.enableLinkResolution
        THEN /\ getFirstLinkpathDest' = restored
             /\ originalGetFirstLinkpathDest' = null
             /\ UNCHANGED registered
        ELSE /\ originalGetFirstLinkpathDest' = null
             /\ getFirstLinkpathDest' = overrideFn
             /\ registered' = TRUE

\* Mutant of setupLinkResolution: nothing is restored when link resolution
\* is disabled
setupLinkResolution_NoRestore(s) ==
    LET restored == IF originalGetFirstLinkpathDest # null
                    THEN originalGetFirstLinkpathDest
                    ELSE getFirstLinkpathDest
    IN  IF ~s.enableLinkResolution
        THEN UNCHANGED <<getFirstLinkpathDest, originalGetFirstLinkpathDest,
                         registered>>
        ELSE /\ originalGetFirstLinkpathDest' = restored
             /\ getFirstLinkpathDest' = overrideFn
             /\ registered' = TRUE

\* setupLinkResolution under settings s: restore the saved original, then,
\* when link resolution is enabled, save the host's function and install the
\* override, registering a cleanup callback
setupLinkResolution(s) ==
    LET restored == IF originalGetFirstLinkpathDest # null
                    THEN originalGetFirstLinkpathDest
                    ELSE getFirstLinkpathDest
    IN  IF ~s.enableLinkResolution
        THEN /\ getFirstLinkpathDest' = restored
             /\ originalGetFirstLinkpathDest' = null
             /\ UNCHANGED registered
        ELSE /\ originalGetFirstLinkpathDest' = restored
             /\ getFirstLinkpathDest' = overrideFn
             /\ registered' = TRUE

\* onload: load the settings from what loadData() returns, set up link
\* resolution, add the settings tab
onload(loaded) ==
    /\ phase = "constructed"
    /\ phase' = "loaded"
    /\ settings' = loadSettings(loaded)
    /\ setupLinkResolution(loadSettings(loaded))
    /\ UNCHANGED <<vaultFiles, data, chooserOpen, lastChosenFile, modals,
                   saves, call, editorVars>>

\* onunload, followed by the registered cleanup callbacks: both put the
\* saved original back when there is one
onunload ==
    /\ phase = "loaded"
    /\ phase' = "unloaded"
    /\ getFirstLinkpathDest' =
           IF originalGetFirstLinkpathDest # null
           THEN originalGetFirstLinkpathDest
           ELSE getFirstLinkpathDest
    /\ UNCHANGED <<settings, vaultFiles, data,
                   originalGetFirstLinkpathDest, registered, chooserOpen,
                   lastChosenFile, modals, saves, call, editorVars>>

\* saveSettings up to its await: saveData(this.settings) is started, which
\* hands the host the settings record as it now is
saveSettings ==
    /\ saves < MaxSaves
    /\ saves' = saves + 1
    /\ data' = settings'

Toggles == {"extractTimestamps", "showFullPath", "appendFileName",
            "enableLinkResolution", "enablePartialMatching"}

\* onChange of a toggle of the settings tab
onChangeToggle(name) ==
    /\ phase = "loaded"
    /\ settings' = [settings EXCEPT ![name] = ~@]
    /\ saveSettings
    /\ UNCHANGED <<phase, vaultFiles, getFirstLinkpathDest,
                   originalGetFirstLinkpathDest, registered, chooserOpen,
                   lastChosenFile, modals, call, editorVars>>

\* Number.parseInt(text): an optional sign, then the decimal digits up to the
\* first character that is none; NaN when there is no digit
DecimalDigits == {"0", "1", "2"}
DigitValue(c) == CASE c = "0" -> 0 [] c = "1" -> 1 [] c = "2" -> 2

RECURSIVE DecimalValue(_, _)
DecimalValue(s, acc) ==
    IF s = <<>> \/ Head(s) \notin DecimalDigits THEN acc
    ELSE DecimalValue(Tail(s), 10 * acc + DigitValue(Head(s)))

NaN == [nan |-> TRUE, value |-> 0]
Number(v) == [nan |-> FALSE, value |-> v]

parseInt(text) ==
    LET s == trimStart(text)
        signed == s # <<>> /\ Head(s) \in {"-", "+"}
        body == IF signed THEN Tail(s) ELSE s
    IN  IF body = <<>> \/ Head(body) \notin DecimalDigits THEN NaN
        ELSE IF signed /\ Head(s) = "-"
        THEN Number(0 - DecimalValue(body, 0))
        ELSE Number(DecimalValue(body, 0))

\* Texts typed into the "Timestamp length" field
TimestampInputs ==
    {<<>>, <<"a">>, <<"0">>, <<"-", "1">>, <<"2">>, <<"2", "a">>, <<"1", "2">>}

\* Mutant of onChangeTimestampLength: any number is taken, its sign unchecked
onChangeTimestampLength_AnyNumber(value) ==
    LET num == parseInt(value)
    IN  /\ phase = "loaded"
        /\ IF ~num.nan
           THEN /\ settings' = [settings EXCEPT !.timestampLength = num.value]
                /\ saveSettings
           ELSE UNCHANGED <<settings, saves, data>>
        /\ UNCHANGED <<phase, vaultFiles, getFirstLinkpathDest,
                       originalGetFirstLinkpathDest, registered, chooserOpen,
                       lastChosenFile, modals, call, editorVars>>

\* onChange of the "Timestamp length" text field
onChangeTimestampLength(value) ==
    LET num == parseInt(value)
    IN  /\ phase = "loaded"
        /\ IF ~num.nan /\ num.value > 0
           THEN /\ settings' = [settings EXCEPT !.timestampLength = num.value]
                /\ saveSettings
           ELSE UNCHANGED <<settings, saves, data>>
        /\ UNCHANGED <<phase, vaultFiles, getFirstLinkpathDest,
                       originalGetFirstLinkpathDest, registered, chooserOpen,
                       lastChosenFile, modals, call, editorVars>>

\* saveSettings after its await: saveData has completed
saveSettingsResume ==
    /\ saves > 0
    /\ saves' = saves - 1
    /\ setupLinkResolution(settings)
    /\ UNCHANGED <<phase, settings, vaultFiles, data, chooserOpen,
                   lastChosenFile, modals, call, editorVars>>

(***************************************************************************)
(* The link-resolution override.                                           *)
(***************************************************************************)
\* Mutant of matchesOf: the comparison without toLowerCase
matchesOf_CaseSensitive(linktext) ==
    SelectSeq(vaultFiles, LAMBDA f : includes(f.basename, linktext))

\* allFiles.filter(f => f.basename.toLowerCase().includes(linktextLower))
matchesOf(linktext) ==
    SelectSeq(vaultFiles,
              LAMBDA f : includes(toLowerCase(f.basename), toLowerCase(linktext)))

Outcome(ret, open) == [ret |-> ret, open |-> open]

\* Mutant of override: the partial match search runs before the default
\* resolution is looked at
override_PartialFirst(linktext, file) ==
    LET matches == matchesOf(linktext)
    IN  IF settings.enablePartialMatching /\ Len(matches) = 1
        THEN Outcome(matches[1], FALSE)
        ELSE IF settings.enablePartialMatching /\ Len(matches) > 1
                /\ ~chooserOpen
        THEN Outcome(lastChosenFile, TRUE)
        ELSE Outcome(file, FALSE)

\* Mutant of override: enablePartialMatching is not consulted
override_AlwaysPartial(linktext, file) ==
    IF file # null
    THEN Outcome(file, FALSE)
    ELSE LET matches == matchesOf(linktext)
         IN  IF Len(matches) > 1 /\ ~chooserOpen
             THEN Outcome(lastChosenFile, TRUE)
             ELSE IF Len(matches) = 1
             THEN Outcome(matches[1], FALSE)
             ELSE Outcome(null, FALSE)

\* Mutant of override: the modal is shown without testing chooserOpen
override_NoGuard(linktext, file) ==
    IF file # null
    THEN Outcome(file, FALSE)
    ELSE IF ~settings.enablePartialMatching
    THEN Outcome(null, FALSE)
    ELSE LET matches == matchesOf(linktext)
         IN  IF Len(matches) > 1
             THEN Outcome(lastChosenFile, TRUE)
             ELSE IF Len(matches) = 1
             THEN Outcome(matches[1], FALSE)
             ELSE Outcome(null, FALSE)

\* Mutant of override: the modal is shown for a single match too
override_PromptOnSingle(linktext, file) ==
    IF originalGetFirstLinkpathDest = null
    THEN Outcome(TypeError, FALSE)
    ELSE IF file # null
    THEN Outcome(file, FALSE)
    ELSE IF ~settings.enablePartialMatching
    THEN Outcome(null, FALSE)
    ELSE LET matches == matchesOf(linktext)
         IN  IF Len(matches) >= 1 /\ ~chooserOpen
             THEN Outcome(lastChosenFile, TRUE)
             ELSE Outcome(null, FALSE)

\* Mutant of override: while a modal is shown, several matches give the
\* last chosen file
override_StaleWhenBusy(linktext, file) ==
    IF originalGetFirstLinkpathDest = null
    THEN Outcome(TypeError, FALSE)
    ELSE IF file # null
    THEN Outcome(file, FALSE)
    ELSE IF ~settings.enablePartialMatching
    THEN Outcome(null, FALSE)
    ELSE LET matches == matchesOf(linktext)
         IN  IF Len(matches) > 1
             THEN Outcome(lastChosenFile, ~chooserOpen)
             ELSE IF Len(matches) = 1
             THEN Outcome(matches[1], FALSE)
             ELSE Outcome(null, FALSE)

\* The override installed by setupLinkResolution, called with linktext when
\* the original function returns file: the value it returns and whether it
\* opens a LinkChooserModal
override(linktext, file) ==
    IF originalGetFirstLinkpathDest = null
    THEN Outcome(TypeError, FALSE)
    ELSE IF file # null
    THEN Outcome(file, FALSE)
    ELSE IF ~settings.enablePartialMatching
    THEN Outcome(null, FALSE)
    ELSE LET matches == matchesOf(linktext)
         IN  IF Len(matches) > 1 /\ ~chooserOpen
             THEN Outcome(lastChosenFile, TRUE)
             ELSE IF Len(matches) = 1
             THEN Outcome(matches[1], FALSE)
             ELSE Outcome(null, FALSE)

\* The host resolves linktext through app.metadataCache.getFirstLinkpathDest;
\* def is what the host's native function returns for it
callGetFirstLinkpathDest(linktext, def) ==
    LET via == getFirstLinkpathDest
        out == IF via = overrideFn THEN override(linktext, def)
               ELSE Outcome(def, FALSE)
        partial == /\ via = overrideFn /\ def = null
                   /\ settings.enablePartialMatching
        busy == partial /\ chooserOpen
        waits == /\ busy /\ Len(matchesOf(linktext)) > 1 /\ modals # <<>>
    IN  /\ call' = [via |-> via, linktext |-> linktext, def |-> def,
                    partial |-> partial, busy |-> busy,
                    opened |-> out.open, ret |-> out.ret]
        /\ IF out.open
           THEN /\ chooserOpen' = TRUE
                /\ modals' = Append(modals,
                       [linktext |-> linktext,
                        matches |-> matchesOf(linktext),
                        returned |-> out.ret,
                        reused |-> {}])
           ELSE /\ UNCHANGED chooserOpen
                /\ modals' = IF waits
                             THEN [modals EXCEPT ![1].reused = @ \cup {out.ret}]
                             ELSE modals
        /\ UNCHANGED <<phase, settings, vaultFiles, data,
                       getFirstLinkpathDest, originalGetFirstLinkpathDest,
                       registered, lastChosenFile, saves, editorVars>>

Remove(seq, i) == SubSeq(seq, 1, i - 1) \o SubSeq(seq, i + 1, Len(seq))

\* The callback given to LinkChooserModal, called with the user's choice
chooserCallback(file) ==
    /\ lastChosenFile' = file
    /\ chooserOpen' = FALSE

\* The user clicks a file of the i-th open LinkChooserModal
clickItem(i, file) ==
    /\ i \in 1..Len(modals)
    /\ file \in Range(modals[i].matches)
    /\ chooserCallback(file)
    /\ modals' = Remove(modals, i)
    /\ UNCHANGED <<phase, settings, vaultFiles, data, getFirstLinkpathDest,
                   originalGetFirstLinkpathDest, registered, saves, call,
                   editorVars>>

\* The user clicks Cancel in the i-th open LinkChooserModal
clickCancel(i) ==
    /\ i \in 1..Len(modals)
    /\ chooserCallback(null)
    /\ modals' = Remove(modals, i)
    /\ UNCHANGED <<phase, settings, vaultFiles, data, getFirstLinkpathDest,
                   originalGetFirstLinkpathDest, registered, saves, call,
                   editorVars>>

\* The host closes the i-th open LinkChooserModal without a click (Escape):
\* only onClose runs
onClose(i) ==
    /\ i \in 1..Len(modals)
    /\ modals' = Remove(modals, i)
    /\ UNCHANGED <<phase, settings, vaultFiles, data, getFirstLinkpathDest,
                   originalGetFirstLinkpathDest, registered, chooserOpen,
                   lastChosenFile, saves, call, editorVars>>

(***************************************************************************)
(* SpecAnyState: the formatter applied while the rest of the plugin's      *)
(* state (the other settings, the hook, the prompt flag, the last-chosen   *)
(* file) is anything it can be.                                            *)
(***************************************************************************)
ShortBasenames == StringsUpTo(Alphabet, MaxLen - 2)

InitAnyState ==
    /\ phase = "loaded"
    /\ settings \in [extractTimestamps : BOOLEAN,
                      timestampLength : TimestampLengths,
                      showFullPath : BOOLEAN, appendFileName : BOOLEAN,
                      enableLinkResolution : BOOLEAN,
                      enablePartialMatching : BOOLEAN]
    /\ \E b \in ShortBasenames : vaultFiles = <<File(b)>>
    /\ getFirstLinkpathDest =
           IF settings.enableLinkResolution THEN overrideFn ELSE native
    /\ originalGetFirstLinkpathDest =
           IF settings.enableLinkResolution THEN native ELSE null
    /\ registered = settings.enableLinkResolution
    /\ chooserOpen \in BOOLEAN
    /\ lastChosenFile \in {null} \cup Range(vaultFiles)
    /\ modals = <<>>
    /\ saves = 0
    /\ call = NoCall
    /\ fileModal = FALSE
    /\ line = <<"x", "y">>
    /\ cursor = 1
    /\ inserted = <<>>
    /\ data = settings
    /\ typed = NoText
    /\ keyEvent = NoKey
    /\ suggestions = NoSuggestions
    /\ latestTrigger = null
    /\ context = null
    /\ triggered = NoTrigger

SpecAnyState == InitAnyState /\ [][NextFormat]_vars

(***************************************************************************)
(* SpecSettings: the settings record from what the host persisted, through *)
(* loadSettings and the settings tab.                                      *)
(***************************************************************************)
\* The records saveData has been given by a run of the plugin: the six
\* fields of this version, or the four of the version without link
\* resolution; the timestamp length of either went through the settings tab
SavedRecords ==
    {NoData}
    \cup [extractTimestamps : BOOLEAN, timestampLength : TimestampLengths,
          showFullPath : BOOLEAN, appendFileName : BOOLEAN]
    \cup [extractTimestamps : BOOLEAN, timestampLength : TimestampLengths,
          showFullPath : BOOLEAN, appendFileName : BOOLEAN,
          enableLinkResolution : BOOLEAN, enablePartialMatching : BOOLEAN]

InitSettings ==
    /\ phase = "constructed"
    /\ settings = undefined
    /\ vaultFiles = <<>>
    /\ getFirstLinkpathDest = native
    /\ originalGetFirstLinkpathDest = null
    /\ registered = FALSE
    /\ chooserOpen = FALSE
    /\ lastChosenFile = null
    /\ modals = <<>>
    /\ saves = 0
    /\ call = NoCall
    /\ fileModal = FALSE
    /\ line = <<"x", "y">>
    /\ cursor = 1
    /\ inserted = <<>>
    /\ data \in SavedRecords
    /\ typed = NoText
    /\ keyEvent = NoKey
    /\ suggestions = NoSuggestions
    /\ latestTrigger = null
    /\ context = null
    /\ triggered = NoTrigger

\* The user edits the "Timestamp length" field: onChange gets its text
typeTimestampLength(value) ==
    /\ onChangeTimestampLength(value)
    /\ typed' = [none |-> FALSE, text |-> value]

NextSettings ==
    /\ UNCHANGED <<keyEvent, suggestVars>>
    /\ \/ onload(data) /\ UNCHANGED typed
       \/ onunload /\ UNCHANGED typed
       \/ \E name \in Toggles : onChangeToggle(name) /\ UNCHANGED typed
       \/ \E value \in TimestampInputs : typeTimestampLength(value)
       \/ saveSettingsResume /\ UNCHANGED typed

SpecSettings == InitSettings /\ [][NextSettings]_vars

(***************************************************************************)
(* SpecTrigger: the plugin version that opens the modal when a trigger     *)
(* sequence is typed (ZettelLinkPlugin with settings.triggerSequence).     *)
(***************************************************************************)
Trigger_DEFAULT_SETTINGS ==
    [triggerSequence |-> <<"{", "{">>,
     extractTimestamps |-> TRUE,
     timestampLength |-> 12,
     showFullPath |-> TRUE,
     appendFileName |-> TRUE]

Trigger_SettingNames == DOMAIN Trigger_DEFAULT_SETTINGS

\* Object.assign({}, DEFAULT_SETTINGS, data)
Trigger_loadSettings(loaded) ==
    [k \in Trigger_SettingNames |->
        IF k \in DOMAIN loaded THEN loaded[k] ELSE Trigger_DEFAULT_SETTINGS[k]]

\* saveSettings: saveData(this.settings), nothing more
Trigger_saveSettings == data' = settings'

\* Texts typed into the "Trigger sequence" field
TriggerInputs ==
    {<<>>, <<"@">>, <<"{", "{">>, <<"@", "{", "{">>}

\* The records saveData has been given by a run of the plugin: the five
\* fields of this version, the trigger having gone through the settings
\* tab, or the four of the version without trigger sequence
Trigger_SavedRecords ==
    {NoData,
     [extractTimestamps |-> TRUE, timestampLength |-> 12,
      showFullPath |-> TRUE, appendFileName |-> FALSE]}
    \cup {[Trigger_DEFAULT_SETTINGS EXCEPT !.triggerSequence = t] :
             t \in {v \in TriggerInputs : Len(v) >= 2}}

\* Keys of the keyboard, and lines of the document the editor shows
Keys == {"{", "@", "x"}
InitLines == {<<>>, <<"x", "}", "}">>}

Trigger_onload(loaded) ==
    /\ phase = "constructed"
    /\ phase' = "loaded"
    /\ settings' = Trigger_loadSettings(loaded)
    /\ UNCHANGED <<vaultFiles, data, resolverVars, editorVars, historyVars>>

Trigger_onunload ==
    /\ phase = "loaded"
    /\ phase' = "unloaded"
    /\ UNCHANGED <<settings, vaultFiles, data, resolverVars, editorVars,
                   historyVars>>

\* Mutant of onChangeTriggerSequence: any text that is not empty is taken
onChangeTriggerSequence_NotEmpty(value) ==
    /\ phase = "loaded"
    /\ typed' = [none |-> FALSE, text |-> value]
    /\ IF Len(value) >= 1
       THEN /\ settings' = [settings EXCEPT !.triggerSequence = value]
            /\ Trigger_saveSettings
       ELSE UNCHANGED <<settings, data>>
    /\ UNCHANGED <<phase, vaultFiles, resolverVars, editorVars, keyEvent>>

\* onChange of the "Trigger sequence" text field, which then shows value
onChangeTriggerSequence(value) ==
    /\ phase = "loaded"
    /\ typed' = [none |-> FALSE, text |-> value]
    /\ IF Len(value) >= 2
       THEN /\ settings' = [settings EXCEPT !.triggerSequence = value]
            /\ Trigger_saveSettings
       ELSE UNCHANGED <<settings, data>>
    /\ UNCHANGED <<phase, vaultFiles, resolverVars, editorVars, keyEvent>>

Trigger_Toggles == {"appendFileName"}

\* onChange of a toggle of the settings tab
Trigger_onChangeToggle(name) ==
    /\ phase = "loaded"
    /\ settings' = [settings EXCEPT ![name] = ~@]
    /\ Trigger_saveSettings
    /\ UNCHANGED <<phase, vaultFiles, resolverVars, editorVars, historyVars>>

Max(a, b) == IF a >= b THEN a ELSE b
Min2(a, b) == IF a <= b THEN a ELSE b

\* line.substring(from, to), a negative from counting as 0
substring(l, from, to) == SubSeq(l, Max(from, 0) + 1, to)

startsWith(l, prefix) ==
    Len(prefix) <= Len(l) /\ SubSeq(l, 1, Len(prefix)) = prefix

\* Mutant of keydown: the text before the cursor is not compared
keydown_AnyTextBefore(key) ==
    LET t == settings.triggerSequence
        triggerPrefix == SubSeq(t, 1, Len(t) - 1)
        fires == /\ Len(t) >= 2
                 /\ key = t[Len(t)]
    IN  /\ phase = "loaded"
        /\ ~keyEvent.pending
        /\ keyEvent' = [none |-> FALSE, key |-> key, prevented |-> fires,
                        pending |-> ~fires]
        /\ IF fires
           THEN /\ line' = SubSeq(line, 1, cursor - Len(triggerPrefix))
                              \o SubSeq(line, cursor + 1, Len(line))
                /\ cursor' = Max(cursor - Len(triggerPrefix), 0)
                /\ fileModal' = TRUE
           ELSE UNCHANGED <<line, cursor, fileModal>>
        /\ UNCHANGED <<phase, settings, vaultFiles, data, resolverVars,
                       inserted, typed>>

\* The keydown listener on the document, the editor being the active view:
\* when key completes the trigger sequence, it is kept from being inserted,
\* the prefix is removed and the modal is opened
keydown(key) ==
    LET t == settings.triggerSequence
        triggerPrefix == SubSeq(t, 1, Len(t) - 1)
        textBefore == substring(line, cursor - Len(triggerPrefix), cursor)
        fires == /\ Len(t) >= 2
                 /\ key = t[Len(t)]
                 /\ textBefore = triggerPrefix
    IN  /\ phase = "loaded"
        /\ ~keyEvent.pending
        /\ keyEvent' = [none |-> FALSE, key |-> key, prevented |-> fires,
                        pending |-> ~fires]
        /\ IF fires
           THEN /\ line' = SubSeq(line, 1, cursor - Len(triggerPrefix))
                              \o SubSeq(line, cursor + 1, Len(line))
                /\ cursor' = cursor - Len(triggerPrefix)
                /\ fileModal' = TRUE
           ELSE UNCHANGED <<line, cursor, fileModal>>
        /\ UNCHANGED <<phase, settings, vaultFiles, data, resolverVars,
                       inserted, typed>>

\* The closing character the editor pairs with an opening one
autoPairMap(c) ==
    CASE c = "{" -> "}"
      [] c = "[" -> "]"
      [] c = "(" -> ")"
      [] c = "<" -> ">"
      [] OTHER -> c

\* The host's default action of a key that no listener prevented: the editor
\* inserts the character, and with it, when auto-pairing is on, its closing
\* character after the cursor
insertText(paired) ==
    /\ keyEvent.pending
    /\ keyEvent' = [keyEvent EXCEPT !.pending = FALSE]
    /\ LET key == keyEvent.key
           text == IF paired /\ autoPairMap(key) # key
                   THEN <<key, autoPairMap(key)>>
                   ELSE <<key>>
       IN  line' = replaceRange(line, text, cursor)
    /\ cursor' = cursor + 1
    /\ UNCHANGED <<phase, settings, vaultFiles, data, resolverVars, fileModal,
                   inserted, typed>>

RECURSIVE expectedClosing(_)
expectedClosing(t) ==
    IF t = <<>> THEN <<>>
    ELSE <<autoPairMap(t[Len(t)])>> \o expectedClosing(SubSeq(t, 1, Len(t) - 1))

\* Mutant of charsToRemove: only the complete closing sequence is removed
charsToRemove_CompleteOnly(afterCursor, closing) ==
    IF closing # <<>> /\ startsWith(afterCursor, closing)
    THEN Len(closing)
    ELSE 0

\* The number of closing characters onChooseItem removes after the cursor
charsToRemove(afterCursor, closing) ==
    IF closing # <<>> /\ startsWith(afterCursor, closing)
    THEN Len(closing)
    ELSE IF Len(closing) > 0 /\ startsWith(afterCursor, <<closing[1]>>)
    THEN 1
    ELSE 0

\* The user selects a file of the modal: closing characters after the cursor
\* are removed, then the link is inserted at the cursor
Trigger_onChooseItem(file) ==
    /\ fileModal
    /\ LET insertionText == format(file.basename, settings)
           afterCursor == SubSeq(line, cursor + 1, Len(line))
           n == charsToRemove(afterCursor,
                              expectedClosing(settings.triggerSequence))
           cleaned == SubSeq(line, 1, cursor)
                         \o SubSeq(line, cursor + n + 1, Len(line))
       IN  /\ line' = replaceRange(cleaned, insertionText, cursor)
           /\ inserted' = Append(inserted,
                  [file |-> file, text |-> insertionText, at |-> cursor,
                   before |-> line])
    /\ fileModal' = FALSE
    /\ UNCHANGED <<phase, settings, vaultFiles, data, resolverVars, cursor,
                   historyVars>>

InitTrigger ==
    /\ phase = "constructed"
    /\ settings = undefined
    /\ vaultFiles = AllFiles
    /\ getFirstLinkpathDest = native
    /\ originalGetFirstLinkpathDest = null
    /\ registered = FALSE
    /\ chooserOpen = FALSE
    /\ lastChosenFile = null
    /\ modals = <<>>
    /\ saves = 0
    /\ call = NoCall
    /\ fileModal = FALSE
    /\ line \in InitLines
    /\ cursor \in 0..Len(line)
    /\ inserted = <<>>
    /\ data \in Trigger_SavedRecords
    /\ typed = NoText
    /\ keyEvent = NoKey
    /\ suggestions = NoSuggestions
    /\ latestTrigger = null
    /\ context = null
    /\ triggered = NoTrigger

\* Keys reach the editor while no modal is open and the line has room
NextTrigger ==
    /\ UNCHANGED suggestVars
    /\ \/ Trigger_onload(data)
       \/ Trigger_onunload
       \/ \E value \in TriggerInputs : onChangeTriggerSequence(value)
       \/ \E name \in Trigger_Toggles : Trigger_onChangeToggle(name)
       \/ \E key \in Keys :
             /\ ~fileModal
             /\ Len(line) < MaxLineLen
             /\ Len(inserted) < MaxInsertions
             /\ keydown(key)
       \/ \E paired \in BOOLEAN : insertText(paired)
       \/ openFileSearchModal /\ UNCHANGED historyVars
       \/ \E f \in Range(vaultFiles) : Trigger_onChooseItem(f)

SpecTrigger == InitTrigger /\ [][NextTrigger]_vars

(***************************************************************************)
(* Spec: the plugin from construction on, with the host resolving links,   *)
(* the user answering prompts and changing settings.                       *)
(***************************************************************************)
Init ==
    /\ phase = "constructed"
    /\ settings = undefined
    /\ vaultFiles \in SubSequences(AllFiles)
    /\ getFirstLinkpathDest = native
    /\ originalGetFirstLinkpathDest = null
    /\ registered = FALSE
    /\ chooserOpen = FALSE
    /\ lastChosenFile = null
    /\ modals = <<>>
    /\ saves = 0
    /\ call = NoCall
    /\ fileModal = FALSE
    /\ line = <<"x", "y">>
    /\ cursor = 1
    /\ inserted = <<>>
    /\ data \in PersistedData
    /\ typed = NoText
    /\ keyEvent = NoKey
    /\ suggestions = NoSuggestions
    /\ latestTrigger = null
    /\ context = null
    /\ triggered = NoTrigger

Next ==
    /\ UNCHANGED <<historyVars, suggestVars>>
    /\ \/ onload(data)
       \/ onunload
       \/ \E name \in Toggles : onChangeToggle(name)
       \/ \E value \in TimestampInputs : onChangeTimestampLength(value)
       \/ saveSettingsResume
       \/ \E l \in Refs, d \in Range(vaultFiles) \cup {null} :
             callGetFirstLinkpathDest(l, d)
       \/ \E i \in 1..Len(modals), f \in Range(vaultFiles) : clickItem(i, f)
       \/ \E i \in 1..Len(modals) : clickCancel(i)
       \/ \E i \in 1..Len(modals) : onClose(i)

Spec == Init /\ [][Next]_vars

(***************************************************************************)
(* Properties of the formatter, checked under SpecFormat.                  *)
(***************************************************************************)
\* "[[" + t + "]]"
Link(t) == <<"[", "[">> \o t \o <<"]", "]">>

\* The first n characters of b are decimal digits
StartsWithDigits(b, n) ==
    /\ n <= Len(b)
    /\ \A i \in 1..n : b[i] \in Digits

\* The length of the run of digits b starts with
LeadingDigits(b) ==
    CHOOSE k \in 0..Len(b) :
        /\ \A i \in 1..k : b[i] \in Digits
        /\ k < Len(b) => b[k + 1] \notin Digits

Blank(s) == \A i \in 1..Len(s) : s[i] \in Whitespace

\* s without its leading and trailing whitespace: the part of s from its
\* first to its last character that is not whitespace
Trimmed(s) ==
    IF Blank(s) THEN <<>>
    ELSE LET first == CHOOSE i \in 1..Len(s) :
                          s[i] \notin Whitespace /\ Blank(SubSeq(s, 1, i - 1))
             last == CHOOSE j \in 1..Len(s) :
                          s[j] \notin Whitespace /\ Blank(SubSeq(s, j + 1, Len(s)))
         IN  SubSeq(s, first, last)

\* The digits and the remainder of a basename, for the configured length
TimestampOf(b) == SubSeq(b, 1, settings.timestampLength)
RemainderOf(b) == SubSeq(b, settings.timestampLength + 1, Len(b))

\* C1: with extractTimestamps on, a basename whose first timestampLength
\* characters are digits t, with trimmed remainder r, is inserted as
\* "[[t]] r" when appendFileName is on and r is not empty, and as "[[t]]"
\* otherwise.
C1_TimestampLink ==
    \A k \in 1..Len(inserted) :
        LET b == inserted[k].file.basename
            r == Trimmed(RemainderOf(b))
        IN  (settings.extractTimestamps
                /\ StartsWithDigits(b, settings.timestampLength))
            => inserted[k].text =
                   IF settings.appendFileName /\ r # <<>>
                   THEN Link(TimestampOf(b)) \o <<" ">> \o r
                   ELSE Link(TimestampOf(b))

\* C1 witness: a timestamped basename whose remainder has whitespace at both
\* ends around a title was formatted with appendFileName on.
C1_Witness ==
    /\ Len(inserted) > 0
    /\ settings.extractTimestamps /\ settings.appendFileName
    /\ LET b == inserted[1].file.basename
           rest == RemainderOf(b)
       IN  /\ StartsWithDigits(b, settings.timestampLength)
           /\ Len(rest) >= 3
           /\ rest[1] \in Whitespace /\ rest[Len(rest)] \in Whitespace
           /\ ~Blank(rest)
           /\ inserted[1].text = Link(TimestampOf(b)) \o <<" ">> \o Trimmed(rest)

\* C2: with extractTimestamps off, every basename b is inserted as
\* "[[" + b + "]]", also when it starts with timestampLength digits.
C2_NoExtraction ==
    \A k \in 1..Len(inserted) :
        ~settings.extractTimestamps
            => inserted[k].text = Link(inserted[k].file.basename)

\* C2 witness: a basename starting with timestampLength digits and a title
\* was formatted with extractTimestamps off.
C2_Witness ==
    /\ Len(inserted) > 0
    /\ ~settings.extractTimestamps
    /\ StartsWithDigits(inserted[1].file.basename, settings.timestampLength)
    /\ ~Blank(RemainderOf(inserted[1].file.basename))
    /\ inserted[1].text = Link(inserted[1].file.basename)

\* C3: a basename that does not begin with timestampLength digits is
\* inserted as "[[" + basename + "]]", whether extractTimestamps is on or
\* off; digits later in the name do not count.
C3_NoTimestamp ==
    \A k \in 1..Len(inserted) :
        ~StartsWithDigits(inserted[k].file.basename, settings.timestampLength)
            => inserted[k].text = Link(inserted[k].file.basename)

\* C3 witness: with extractTimestamps on, a basename that starts with a
\* letter and holds timestampLength digits further on was formatted.
C3_Witness ==
    /\ Len(inserted) > 0
    /\ settings.extractTimestamps
    /\ LET b == inserted[1].file.basename
           n == settings.timestampLength
       IN  /\ Len(b) > n
           /\ b[1] \in Letters
           /\ \A i \in 2..(n + 1) : b[i] \in Digits
           /\ inserted[1].text = Link(b)

\* C4 (as claimed): with extractTimestamps on, a basename whose leading run
\* of digits is longer than timestampLength is inserted as
\* "[[" + basename + "]]", the run is not split.
C4_LongerRunNotSplit ==
    \A k \in 1..Len(inserted) :
        (settings.extractTimestamps
            /\ LeadingDigits(inserted[k].file.basename) > settings.timestampLength)
        => inserted[k].text = Link(inserted[k].file.basename)

(***************************************************************************)
(* Properties of the link-resolution override, checked under Spec.         *)
(***************************************************************************)
\* The basename b contains ref, letter case aside
ContainsIgnoringCase(b, ref) ==
    \E i \in 0..(Len(b) - Len(ref)) :
        \A j \in 1..Len(ref) : LowerChar(b[i + j]) = LowerChar(ref[j])

\* The files of the vault whose basename contains ref, letter case aside
Candidates(ref) ==
    {f \in Range(vaultFiles) : ContainsIgnoringCase(f.basename, ref)}

\* C5: when the host's default resolution is a file, the installed override
\* returns exactly that file and opens no prompt, whatever the candidates,
\* enablePartialMatching, the prompt flag and the last-chosen slot are.
C5_DefaultResolutionWins ==
    [][\A l \in Refs, d \in Range(vaultFiles) :
           (getFirstLinkpathDest = overrideFn /\ callGetFirstLinkpathDest(l, d))
           => /\ call'.ret = d
              /\ modals' = modals
              /\ chooserOpen' = chooserOpen
              /\ lastChosenFile' = lastChosenFile]_vars

\* C5 witness: with partial matching on and a prompt open, the override was
\* called for a reference whose default resolution is a file that is not
\* among the reference's candidates, and returned that file.
C5_Witness ==
    /\ call.via = overrideFn
    /\ call.def # null
    /\ call.ret = call.def
    /\ call.def \notin Candidates(call.linktext)
    /\ Candidates(call.linktext) # {}
    /\ settings.enablePartialMatching
    /\ chooserOpen /\ Len(modals) = 1

\* C6 (as claimed): the result of the resolution call that opens a prompt is
\* exactly the file the user picks in that prompt, or null when the user
\* cancels it.
C6_ResultIsUserChoice ==
    [][/\ \A f \in Range(vaultFiles) :
              clickItem(1, f) => modals[1].returned = f
       /\ clickCancel(1) => modals[1].returned = null]_vars

\* C7: when the default resolution is null and partial matching is enabled,
\* the override returns the candidate when exactly one basename contains the
\* reference (letter case aside) and null when none does, also while a
\* prompt is open.
C7_SingleOrNoMatch ==
    call.partial =>
        /\ \A f \in Candidates(call.linktext) :
               Candidates(call.linktext) = {f} => call.ret = f
        /\ Candidates(call.linktext) = {} => call.ret = null

\* C7 witness: while a prompt was open, a reference differing in letter case
\* from the one basename that contains it was resolved to that file.
C7_Witness ==
    /\ call.partial /\ call.busy
    /\ Len(modals) = 1
    /\ \E f \in Range(vaultFiles) :
          /\ Candidates(call.linktext) = {f}
          /\ ~includes(f.basename, call.linktext)
          /\ call.ret = f

\* C8: when the default resolution is null and enablePartialMatching is off,
\* the override returns null for every reference and candidate set, opens no
\* prompt and leaves the prompt flag and the last-chosen slot unchanged.
C8_PartialMatchingOff ==
    [][\A l \in Refs :
           (/\ getFirstLinkpathDest = overrideFn
            /\ ~settings.enablePartialMatching
            /\ callGetFirstLinkpathDest(l, null))
           => /\ call'.ret = null
              /\ modals' = modals
              /\ chooserOpen' = chooserOpen
              /\ lastChosenFile' = lastChosenFile]_vars

\* C8 witness: with partial matching off and no prompt open, a reference
\* with several candidates and no default resolution was resolved to null.
C8_Witness ==
    /\ call.via = overrideFn
    /\ call.def = null
    /\ ~call.partial
    /\ ~settings.enablePartialMatching
    /\ Cardinality(Candidates(call.linktext)) > 1
    /\ call.ret = null
    /\ ~chooserOpen /\ modals = <<>>

\* C9: at most one disambiguation prompt is open in every reachable state.
C9_OnePrompt == Len(modals) <= 1

\* C9 witness: a request with several candidates arrived while a prompt was
\* pending, opened nothing, and the one prompt is still open.
C9_Witness ==
    /\ call.partial /\ call.busy
    /\ Cardinality(Candidates(call.linktext)) > 1
    /\ ~call.opened
    /\ Len(modals) = 1

\* C10 (as claimed): a request with several candidates that arrives while a
\* prompt is open yields what that prompt produces: the file the user picks
\* in it, or null when the user cancels it.
C10_ReuseInFlightOutcome ==
    [][/\ \A f \in Range(vaultFiles) :
              clickItem(1, f) => \A r \in modals[1].reused : r = f
       /\ clickCancel(1) => \A r \in modals[1].reused : r = null]_vars


(***************************************************************************)
(* SpecResolver: the installed override in a vault where different         *)
(* references have different sets of several matches.                      *)
(***************************************************************************)
ResolverFiles == <<File(<<"1", "a">>), File(<<"1", "B">>), File(<<"2", "a">>)>>
ResolverRefs == {<<"1">>, <<"a">>, <<"B">>}

InitResolver ==
    /\ phase = "loaded"
    /\ settings = DEFAULT_SETTINGS
    /\ vaultFiles = ResolverFiles
    /\ getFirstLinkpathDest = overrideFn
    /\ originalGetFirstLinkpathDest = native
    /\ registered = TRUE
    /\ chooserOpen = FALSE
    /\ lastChosenFile = null
    /\ modals = <<>>
    /\ saves = 0
    /\ call = NoCall
    /\ fileModal = FALSE
    /\ line = <<"x", "y">>
    /\ cursor = 1
    /\ inserted = <<>>
    /\ data = NoData
    /\ typed = NoText
    /\ keyEvent = NoKey
    /\ suggestions = NoSuggestions
    /\ latestTrigger = null
    /\ context = null
    /\ triggered = NoTrigger

NextResolver ==
    /\ UNCHANGED <<historyVars, suggestVars>>
    /\ \/ \E l \in ResolverRefs, d \in Range(vaultFiles) \cup {null} :
             callGetFirstLinkpathDest(l, d)
       \/ \E i \in 1..Len(modals), f \in Range(vaultFiles) : clickItem(i, f)
       \/ \E i \in 1..Len(modals) : clickCancel(i)
       \/ \E i \in 1..Len(modals) : onClose(i)

SpecResolver == InitResolver /\ [][NextResolver]_vars

(***************************************************************************)
(* SpecModal: the file selection modal and its search field.               *)
(***************************************************************************)
\* TFile.name of a markdown file: the basename and the extension
name(file) == file.basename \o <<".", "m", "d">>

Queries == StringsUpTo({"1", "A", "b", "."}, MaxQueryLen)

\* Mutant of getSuggestions: the basename is searched, not the name
getSuggestions_Basename(query) ==
    /\ fileModal
    /\ suggestions' =
           [none |-> FALSE, query |-> query,
            files |-> SelectSeq(vaultFiles,
                LAMBDA file : includes(toLowerCase(file.basename),
                                       toLowerCase(query)))]
    /\ UNCHANGED <<phase, settings, vaultFiles, data, resolverVars,
                   editorVars, historyVars, latestTrigger, context,
                   triggered>>

\* The host asks the open modal for the suggestions of the text in its
\* search field; this.vaultFiles is the vault's list of markdown files
getSuggestions(query) ==
    /\ fileModal
    /\ suggestions' =
           [none |-> FALSE, query |-> query,
            files |-> SelectSeq(vaultFiles,
                LAMBDA file : includes(toLowerCase(name(file)),
                                       toLowerCase(query)))]
    /\ UNCHANGED <<phase, settings, vaultFiles, data, resolverVars,
                   editorVars, historyVars, latestTrigger, context,
                   triggered>>

InitModal ==
    /\ phase = "loaded"
    /\ settings = DEFAULT_SETTINGS
    /\ vaultFiles \in SubSequences(ResolverFiles)
    /\ getFirstLinkpathDest = overrideFn
    /\ originalGetFirstLinkpathDest = native
    /\ registered = TRUE
    /\ chooserOpen = FALSE
    /\ lastChosenFile = null
    /\ modals = <<>>
    /\ saves = 0
    /\ call = NoCall
    /\ fileModal = FALSE
    /\ line = <<"x", "y">>
    /\ cursor = 1
    /\ inserted = <<>>
    /\ data = NoData
    /\ typed = NoText
    /\ keyEvent = NoKey
    /\ suggestions = NoSuggestions
    /\ latestTrigger = null
    /\ context = null
    /\ triggered = NoTrigger

NextModal ==
    \/ openFileSearchModal /\ UNCHANGED <<historyVars, suggestVars>>
    \/ \E query \in Queries : getSuggestions(query)
    \/ \E f \in Range(vaultFiles) :
          onChooseItem(f) /\ UNCHANGED <<historyVars, suggestVars>>

SpecModal == InitModal /\ [][NextModal]_vars

(***************************************************************************)
(* SpecSuggest: the plugin version built on EditorSuggest (ZettelSuggest). *)
(* The host calls onTrigger after every change of the text or the cursor,  *)
(* shows the suggestions while it returns a trigger, and closes them when  *)
(* it returns null, when the user dismisses them, and after a selection.   *)
(***************************************************************************)
SuggestKeys == {"{", "x"}

TriggerInfo(start, end, query) ==
    [start |-> start, end |-> end, query |-> query]

\* editor.getRange(from, to) on line l; for to before from the host either
\* gives the empty text or the text between the two (normalised)
getRange(l, from, to, normalised) ==
    IF from <= to THEN SubSeq(l, from + 1, to)
    ELSE IF normalised THEN SubSeq(l, to + 1, from)
    ELSE <<>>

\* onTrigger(cursor) on line l: the trigger it returns (or null); it stores
\* the same value in latestTrigger
onTrigger(l, at, normalised) ==
    IF latestTrigger # null
    THEN TriggerInfo(latestTrigger.start, at,
                     getRange(l, latestTrigger.start, at, normalised))
    ELSE IF at >= 2 /\ SubSeq(l, at - 1, at) = <<"{", "{">>
    THEN TriggerInfo(at - 2, at, <<>>)
    ELSE null

\* The host's call of onTrigger after the text or the cursor has changed
afterChange(l, at, normalised) ==
    LET info == onTrigger(l, at, normalised)
    IN  /\ latestTrigger' = info
        /\ context' = info
        /\ triggered' = [none |-> FALSE, at |-> at, ret |-> info]

\* The user types a character; the editor may pair "{" with "}"
typeChar(c, paired, normalised) ==
    /\ Len(line) < MaxLineLen
    /\ LET text == IF paired /\ autoPairMap(c) # c
                   THEN <<c, autoPairMap(c)>>
                   ELSE <<c>>
       IN  /\ line' = replaceRange(line, text, cursor)
           /\ cursor' = cursor + 1
           /\ afterChange(replaceRange(line, text, cursor), cursor + 1,
                          normalised)
    /\ UNCHANGED <<phase, settings, vaultFiles, data, resolverVars, fileModal,
                   inserted, historyVars, suggestions>>

\* The user puts the cursor somewhere else on the line (followed while the
\* line is at most MaxLineLen long)
moveCursor(to, normalised) ==
    /\ Len(line) <= MaxLineLen
    /\ to \in 0..Len(line)
    /\ to # cursor
    /\ cursor' = to
    /\ afterChange(line, to, normalised)
    /\ UNCHANGED <<phase, settings, vaultFiles, data, resolverVars, fileModal,
                   line, inserted, historyVars, suggestions>>

\* The user dismisses the suggestions (Escape): the host closes them
dismiss ==
    /\ context # null
    /\ context' = null
    /\ UNCHANGED <<phase, settings, vaultFiles, data, resolverVars,
                   editorVars, historyVars, suggestions, latestTrigger,
                   triggered>>

\* insertionText of selectSuggestion: the timestamp has 12 digits, the rest
\* of the name is always appended
Suggest_format(fileName) ==
    LET m == timestampMatch(fileName, 12)
    IN  IF m # NoMatch
        THEN LET restName == trim(m[2])
             IN  <<"[", "[">> \o m[1] \o <<"]", "]">>
                    \o (IF restName # <<>> THEN <<" ">> \o restName ELSE <<>>)
        ELSE <<"[", "[">> \o fileName \o <<"]", "]">>

\* The line after editor.replaceRange("", from, to), and where a cursor that
\* stood at position at stands afterwards
removeRange(l, from, to) ==
    IF from <= to THEN SubSeq(l, 1, from) \o SubSeq(l, to + 1, Len(l)) ELSE l
cursorAfterRemove(at, from, to) ==
    IF from > to \/ at <= from THEN at
    ELSE IF at >= to THEN at - (to - from)
    ELSE from

\* Mutant of selectSuggestion: a "}}" after the cursor is left in place
selectSuggestion_KeepsClosing(file, normalised) ==
    /\ context # null
    /\ Len(inserted) < MaxInsertions
    /\ LET insertionText == Suggest_format(file.basename)
           trigger == latestTrigger
           from == IF trigger = null THEN cursor
                   ELSE IF trigger.start > trigger.end /\ normalised
                   THEN trigger.end ELSE trigger.start
           to == IF trigger = null THEN cursor
                 ELSE IF trigger.start > trigger.end /\ normalised
                 THEN trigger.start ELSE trigger.end
           line1 == removeRange(line, from, to)
           cursor1 == cursorAfterRemove(cursor, from, to)
       IN  /\ line' = replaceRange(line1, insertionText, cursor1)
           /\ cursor' = cursor1
           /\ inserted' = Append(inserted,
                  [file |-> file, text |-> insertionText, at |-> cursor,
                   before |-> line])
    /\ latestTrigger' = null
    /\ context' = null
    /\ UNCHANGED <<phase, settings, vaultFiles, data, resolverVars, fileModal,
                   historyVars, suggestions, triggered>>

\* The user selects a suggestion: the text from the trigger's start to its
\* end is removed, then a "}}" right after the cursor, then the link is
\* inserted at the cursor; the host closes the suggestions
selectSuggestion(file, normalised) ==
    /\ context # null
    /\ Len(inserted) < MaxInsertions
    /\ LET insertionText == Suggest_format(file.basename)
           trigger == latestTrigger
           from == IF trigger = null THEN cursor
                   ELSE IF trigger.start > trigger.end /\ normalised
                   THEN trigger.end ELSE trigger.start
           to == IF trigger = null THEN cursor
                 ELSE IF trigger.start > trigger.end /\ normalised
                 THEN trigger.start ELSE trigger.end
           line1 == removeRange(line, from, to)
           cursor1 == cursorAfterRemove(cursor, from, to)
           nextTwo == SubSeq(line1, cursor1 + 1, Min2(cursor1 + 2, Len(line1)))
           line2 == IF trigger # null /\ nextTwo = <<"}", "}">>
                    THEN removeRange(line1, cursor1, cursor1 + 2)
                    ELSE line1
       IN  /\ line' = replaceRange(line2, insertionText, cursor1)
           /\ cursor' = cursor1
           /\ inserted' = Append(inserted,
                  [file |-> file, text |-> insertionText, at |-> cursor,
                   before |-> line])
    /\ latestTrigger' = null
    /\ context' = null
    /\ UNCHANGED <<phase, settings, vaultFiles, data, resolverVars, fileModal,
                   historyVars, suggestions, triggered>>

InitSuggest ==
    /\ phase = "loaded"
    /\ settings = undefined
    /\ vaultFiles = AllFiles
    /\ getFirstLinkpathDest = native
    /\ originalGetFirstLinkpathDest = null
    /\ registered = FALSE
    /\ chooserOpen = FALSE
    /\ lastChosenFile = null
    /\ modals = <<>>
    /\ saves = 0
    /\ call = NoCall
    /\ fileModal = FALSE
    /\ line \in InitLines
    /\ cursor \in 0..Len(line)
    /\ inserted = <<>>
    /\ data = NoData
    /\ typed = NoText
    /\ keyEvent = NoKey
    /\ suggestions = NoSuggestions
    /\ latestTrigger = null
    /\ context = null
    /\ triggered = NoTrigger

NextSuggest ==
    \/ \E c \in SuggestKeys, paired \in BOOLEAN, normalised \in BOOLEAN :
          typeChar(c, paired, normalised)
    \/ \E to \in 0..Len(line), normalised \in BOOLEAN :
          moveCursor(to, normalised)
    \/ dismiss
    \/ \E f \in Range(vaultFiles), normalised \in BOOLEAN :
          selectSuggestion(f, normalised)

SpecSuggest == InitSuggest /\ [][NextSuggest]_vars

(***************************************************************************)
(* C11, C12, C20: the resolver's faults and the hook's life cycle (Spec).  *)
(***************************************************************************)
\* C11: the resolver is total.  No resolution request ends in a fault (the
\* override always finds the saved original function to call), a request
\* that goes to the partial match search and finds no candidate returns
\* null, and a click on Cancel records null as the outcome of the prompt and
\* releases the prompt flag.
C11_ResolverTotal ==
    /\ [](/\ call.ret # TypeError
          /\ getFirstLinkpathDest = overrideFn
                 => originalGetFirstLinkpathDest = native
          /\ (call.partial /\ Candidates(call.linktext) = {})
                 => call.ret = null)
    /\ [][\A i \in 1..Len(modals) :
              clickCancel(i) => lastChosenFile' = null /\ ~chooserOpen']_vars

\* C11 witness: a request opened a prompt, and the user cancelled it: the
\* prompt is gone, the flag is released and the recorded outcome is null.
C11_Witness ==
    /\ call.via = overrideFn /\ call.opened
    /\ modals = <<>>
    /\ ~chooserOpen
    /\ lastChosenFile = null

\* C12 (as claimed): once the plugin is unloaded the host's function is the
\* native one, and the saved original is not the plugin's override.
C12_NativeAfterUnload ==
    phase = "unloaded" =>
        /\ getFirstLinkpathDest = native
        /\ originalGetFirstLinkpathDest # overrideFn

\* C20: every completed setupLinkResolution of a loaded plugin (the one of
\* onload and the one that ends each saveSettings) leaves the host's function
\* the override exactly when enableLinkResolution is set; when it is not set
\* the host's function is the native one and no original is saved.
C20_HookFollowsSetting ==
    [][((onload(data) \/ saveSettingsResume) /\ phase' = "loaded") =>
          /\ (getFirstLinkpathDest' = overrideFn)
                 <=> settings'.enableLinkResolution
          /\ ~settings'.enableLinkResolution =>
                 /\ getFirstLinkpathDest' = native
                 /\ originalGetFirstLinkpathDest' = null]_vars

\* C20 witness: link resolution had been enabled, was disabled, and the save
\* has completed: the native function is back and no original is saved.
C20_Witness ==
    /\ phase = "loaded" /\ saves = 0
    /\ registered
    /\ ~settings.enableLinkResolution
    /\ getFirstLinkpathDest = native
    /\ originalGetFirstLinkpathDest = null


(***************************************************************************)
(* C13, C16: the settings record (SpecSettings).                           *)
(***************************************************************************)
\* A decimal numeral, and one that denotes a positive integer
DecimalText(text) ==
    /\ text # <<>>
    /\ \A i \in 1..Len(text) : text[i] \in DecimalDigits
PositiveNumeral(text) ==
    /\ DecimalText(text)
    /\ \E i \in 1..Len(text) : text[i] # "0"

\* The text starts with a numeral that denotes a positive integer
LeadingPositive(text) ==
    \E k \in 1..Len(text) : PositiveNumeral(SubSeq(text, 1, k))

PositiveIntegers == Nat \ {0}

ClaimedDefaults ==
    [extractTimestamps |-> TRUE, timestampLength |-> 12,
     showFullPath |-> TRUE, appendFileName |-> TRUE,
     enableLinkResolution |-> TRUE, enablePartialMatching |-> TRUE]

\* C16: loadSettings gives every field the persisted value when the
\* persisted record has the field and the default otherwise; without a
\* persisted record the settings are the defaults.
C16_LoadedSettings ==
    [][onload(data) =>
          /\ DOMAIN settings' = DOMAIN ClaimedDefaults
          /\ \A k \in DOMAIN ClaimedDefaults :
                 settings'[k] = IF k \in DOMAIN data THEN data[k]
                                ELSE ClaimedDefaults[k]
          /\ data = NoData => settings' = ClaimedDefaults]_vars

\* C16 witness: a record of the four older fields was loaded; its timestamp
\* length is in the settings, and the fields it lacks have their defaults.
C16_Witness ==
    /\ phase = "loaded"
    /\ data # NoData
    /\ "enableLinkResolution" \notin DOMAIN data
    /\ data.timestampLength # 12
    /\ ~data.appendFileName
    /\ settings.timestampLength = data.timestampLength
    /\ ~settings.appendFileName
    /\ settings.enableLinkResolution /\ settings.enablePartialMatching


(***************************************************************************)
(* C14, C15: the formatter never fails and is pure.                        *)
(***************************************************************************)
Last(seq) == seq[Len(seq)]

StartsWithBrackets(text) ==
    Len(text) >= 2 /\ text[1] = "[" /\ text[2] = "["

\* "]]" occurs in text after the opening "[["
ClosesBrackets(text) ==
    \E i \in 3..(Len(text) - 1) : text[i] = "]" /\ text[i + 1] = "]"

\* C14: every choice of a file, whatever its basename (the empty one
\* included) and the configuration, makes exactly one insertion: a text that
\* begins with "[[" and contains a closing "]]", put at the cursor, the rest
\* of the line staying as it was.
C14_FormatterNeverFails ==
    [][\A f \in Range(vaultFiles) :
          onChooseItem(f) =>
              LET text == Last(inserted').text
              IN  /\ Len(inserted') = Len(inserted) + 1
                  /\ StartsWithBrackets(text)
                  /\ ClosesBrackets(text)
                  /\ Len(line') = Len(line) + Len(text)
                  /\ SubSeq(line', 1, cursor) = SubSeq(line, 1, cursor)
                  /\ SubSeq(line', cursor + 1, cursor + Len(text)) = text
                  /\ SubSeq(line', cursor + Len(text) + 1, Len(line'))
                         = SubSeq(line, cursor + 1, Len(line))]_vars

\* C14 witness: the file with the empty basename was chosen; "[[]]" stands
\* at the cursor.
C14_Witness ==
    /\ Len(inserted) = 1
    /\ inserted[1].file.basename = <<>>
    /\ inserted[1].text = <<"[", "[", "]", "]">>
    /\ line = <<"x", "[", "[", "]", "]", "y">>

\* The link text for basename b as a function of b and the three
\* link-creation settings alone: extractTimestamps e, timestampLength n,
\* appendFileName a
LinkTextOf(b, e, n, a) ==
    IF e /\ StartsWithDigits(b, n)
    THEN LET r == Trimmed(SubSeq(b, n + 1, Len(b)))
         IN  IF a /\ r # <<>>
             THEN Link(SubSeq(b, 1, n)) \o <<" ">> \o r
             ELSE Link(SubSeq(b, 1, n))
    ELSE Link(b)

\* C15: the inserted text is one function of the basename and of
\* extractTimestamps, timestampLength and appendFileName, whatever the other
\* settings, the hook, the prompt flag and the last-chosen file are; and the
\* choice leaves the settings and the vault's files unchanged.
C15_PureFormatting ==
    [][\A f \in Range(vaultFiles) :
          onChooseItem(f) =>
              /\ Last(inserted').text =
                     LinkTextOf(f.basename, settings.extractTimestamps,
                                settings.timestampLength,
                                settings.appendFileName)
              /\ UNCHANGED <<settings, vaultFiles, data>>]_vars

\* C15 witness: a name with a timestamp was formatted, name appended, while
\* the modal shows no paths, link resolution is off, a prompt is flagged as
\* open and a file is remembered as last chosen.
C15_Witness ==
    /\ Len(inserted) = 1
    /\ inserted[1].text = Link(<<"1">>) \o <<" ", "a">>
    /\ ~settings.showFullPath
    /\ ~settings.enableLinkResolution
    /\ ~settings.enablePartialMatching
    /\ getFirstLinkpathDest = native
    /\ chooserOpen
    /\ lastChosenFile # null


(***************************************************************************)
(* C17, C18, C19: the trigger sequence (SpecTrigger).                      *)
(***************************************************************************)
\* C17: a key that equals the last character of the trigger, pressed when
\* the text right before the cursor is the trigger without its last
\* character, is not inserted, the prefix is removed from the line and the
\* modal opens; any other key, or any other text before the cursor, leaves
\* line and cursor as they are and opens no modal.
C17_TriggerOpensModal ==
    [][\A key \in Keys :
          keydown(key) =>
              LET t == settings.triggerSequence
                  p == Len(t) - 1
                  completes ==
                      /\ key = t[Len(t)]
                      /\ cursor >= p
                      /\ \A i \in 1..p : line[cursor - p + i] = t[i]
              IN  IF completes
                  THEN /\ keyEvent'.prevented
                       /\ line' = SubSeq(line, 1, cursor - p)
                                     \o SubSeq(line, cursor + 1, Len(line))
                       /\ cursor' = cursor - p
                       /\ fileModal'
                  ELSE /\ ~keyEvent'.prevented
                       /\ UNCHANGED <<line, cursor, fileModal>>]_vars

\* C17 witness: with the trigger "@{{", "@" and "{" were typed, the editor
\* pairing "{" with "}", and the second "{" was pressed: it was kept out of
\* the line, "@{" is gone and the modal is open.
C17_Witness ==
    /\ phase = "loaded"
    /\ settings.triggerSequence = <<"@", "{", "{">>
    /\ keyEvent.key = "{" /\ keyEvent.prevented
    /\ fileModal
    /\ line = <<"}">> /\ cursor = 0

Braces == <<"{", "{">>

\* C18: with the trigger "{{", selecting a file removes "}}" when the text
\* after the cursor starts with it, else one "}" when it starts with that,
\* else nothing; the link text then stands at the cursor, between the text
\* that was before the cursor and the text that was after the removed
\* characters.
C18_ClosingBracesRemoved ==
    [][\A f \in Range(vaultFiles) :
          (Trigger_onChooseItem(f) /\ settings.triggerSequence = Braces) =>
              LET text == Last(inserted').text
                  rest == Len(line) - cursor
                  removed ==
                      IF rest >= 2 /\ line[cursor + 1] = "}"
                                   /\ line[cursor + 2] = "}"
                      THEN 2
                      ELSE IF rest >= 1 /\ line[cursor + 1] = "}"
                      THEN 1
                      ELSE 0
              IN  /\ StartsWithBrackets(text)
                  /\ line' = SubSeq(line, 1, cursor) \o text
                                \o SubSeq(line, cursor + removed + 1, Len(line))
                  /\ cursor' = cursor]_vars

\* C18 witness: "x}}" with the cursor after "x": both braces were removed and
\* the link stands after "x".
C18_Witness ==
    /\ phase = "loaded"
    /\ settings.triggerSequence = Braces
    /\ Len(inserted) = 1
    /\ inserted[1].before = <<"x", "}", "}">>
    /\ inserted[1].at = 1
    /\ line = <<"x">> \o inserted[1].text

\* C19: the trigger sequence has 2 or more characters in every state after
\* load; an update with a shorter text leaves the settings unchanged and
\* persists nothing; and no keypress opens the modal while the trigger is
\* shorter than 2 characters.
C19_TriggerTwoOrMore ==
    /\ [](phase # "constructed" => Len(settings.triggerSequence) >= 2)
    /\ [][\A value \in TriggerInputs :
              (onChangeTriggerSequence(value) /\ Len(value) < 2)
                  => UNCHANGED <<settings, data>>]_vars
    /\ [][\A key \in Keys :
              (keydown(key) /\ Len(settings.triggerSequence) < 2)
                  => UNCHANGED fileModal]_vars

\* C19 witness: the trigger was "@{{", then the field was edited down to "@":
\* the setting, and what the host holds, is still "@{{".
C19_Witness ==
    /\ phase = "loaded"
    /\ typed.text = <<"@">>
    /\ settings.triggerSequence = <<"@", "{", "{">>
    /\ data = settings


(***************************************************************************)
(* C21, C22, C26: the prompt and its flag (Spec).                          *)
(***************************************************************************)
\* C21: a resolution request opens a prompt exactly when it goes through
\* the override, the default resolution is null, partial matching is
\* enabled, more than one file matches and no prompt is open; it never
\* changes the last-chosen slot, and when it opens nothing it leaves the
\* prompt flag and the open prompts as they are.
C21_PromptOnlyForSeveralMatches ==
    [][\A l \in Refs, d \in Range(vaultFiles) \cup {null} :
          callGetFirstLinkpathDest(l, d) =>
              LET several ==
                      /\ getFirstLinkpathDest = overrideFn
                      /\ d = null
                      /\ settings.enablePartialMatching
                      /\ Cardinality(Candidates(l)) > 1
                      /\ ~chooserOpen
              IN  /\ lastChosenFile' = lastChosenFile
                  /\ IF several
                     THEN /\ modals = <<>>
                          /\ Len(modals') = 1
                          /\ modals'[1].linktext = l
                          /\ chooserOpen'
                     ELSE /\ Len(modals') = Len(modals)
                          /\ chooserOpen' = chooserOpen]_vars

\* C21 witness: the last request had no default resolution and several
\* matches, and its prompt is the one open.
C21_Witness ==
    /\ call.via = overrideFn /\ call.def = null
    /\ call.opened
    /\ Len(modals) = 1 /\ modals[1].linktext = call.linktext
    /\ Cardinality(Candidates(call.linktext)) > 1
    /\ chooserOpen

C26_FlagTracksPrompt ==
    chooserOpen <=> (modals # <<>>)


(***************************************************************************)
(* C25: what the override returns (SpecResolver).                          *)
(***************************************************************************)
\* C25 (as claimed): what the override returns for a reference without
\* default resolution is null or a file whose basename contains that
\* reference, letter case aside.
C25_ReturnedFileMatches ==
    (call.via = overrideFn /\ call.def = null) =>
        \/ call.ret = null
        \/ call.ret \in Candidates(call.linktext)


(***************************************************************************)
(* C24: the suggestions of the file selection modal (SpecModal).           *)
(***************************************************************************)
\* The name of a markdown file: its basename followed by ".md"
FileName(f) == f.basename \o <<".", "m", "d">>

\* C24: the files getSuggestions returns are exactly the files of the vault
\* whose name contains the query, letter case aside, in the order of the
\* vault; for the empty query they are all the files of the vault; and the
\* call leaves the vault's list as it is.
C24_SuggestionsMatchQuery ==
    /\ [](~suggestions.none =>
             /\ suggestions.files \in SubSequences(vaultFiles)
             /\ Range(suggestions.files) =
                    {f \in Range(vaultFiles) :
                        ContainsIgnoringCase(FileName(f), suggestions.query)}
             /\ suggestions.query = <<>> => suggestions.files = vaultFiles)
    /\ [][\A query \in Queries :
              getSuggestions(query) => vaultFiles' = vaultFiles]_vars

\* C24 witness: in the vault "1a", "1B", "2a" the query "A" gave "1a" and
\* "2a", in this order.
C24_Witness ==
    /\ ~suggestions.none
    /\ Len(vaultFiles) = 3
    /\ suggestions.query = <<"A">>
    /\ suggestions.files = <<File(<<"1", "a">>), File(<<"2", "a">>)>>

(***************************************************************************)
(* C23, C27: the sessions of the EditorSuggest version (SpecSuggest).      *)
(***************************************************************************)
\* The session is intact: the suggestions are shown, "{{" stands where the
\* session started, and the cursor is behind it
SessionIntact ==
    /\ context # null
    /\ latestTrigger # null
    /\ latestTrigger.start + 2 <= cursor
    /\ SubSeq(line, latestTrigger.start + 1, latestTrigger.start + 2)
           = <<"{", "{">>

\* The text behind the cursor, without a "}}" that follows it immediately
BehindCursor ==
    LET after == SubSeq(line, cursor + 1, Len(line))
    IN  IF Len(after) >= 2 /\ SubSeq(after, 1, 2) = <<"}", "}">>
        THEN SubSeq(after, 3, Len(after))
        ELSE after

\* C23: selecting a suggestion in an intact session replaces "{{" and what
\* was typed after it up to the cursor by the link text, removes a "}}" that
\* follows the cursor immediately, leaves the text before the session and
\* the rest behind the cursor as they are, and clears latestTrigger.
C23_SelectionReplacesSession ==
    [][\A f \in Range(vaultFiles), normalised \in BOOLEAN :
          (selectSuggestion(f, normalised) /\ SessionIntact) =>
             /\ StartsWithBrackets(Last(inserted').text)
             /\ line' = SubSeq(line, 1, latestTrigger.start)
                           \o Last(inserted').text \o BehindCursor
             /\ latestTrigger' = null]_vars

\* C23 witness: in "{{}}" with the cursor between the braces a suggestion
\* was selected, and the line is the link text alone.
C23_Witness ==
    /\ Len(inserted) = 1
    /\ inserted[1].before = <<"{", "{", "}", "}">>
    /\ inserted[1].at = 2
    /\ line = inserted[1].text
    /\ latestTrigger = null

\* The text up to position at of line l ends with "{{"
EndsWithBraces(l, at) ==
    at >= 2 /\ SubSeq(l, at - 1, at) = <<"{", "{">>

\* C27: when no suggestions are shown (no session was started, or the last
\* one was dismissed), a call of onTrigger returns a trigger exactly if the
\* text up to the cursor ends with "{{", and this trigger starts two
\* characters before the cursor with an empty query; otherwise it returns
\* null.
C27_NoRevivalAfterDismissal ==
    [][(/\ context = null
        /\ \/ \E c \in SuggestKeys, paired \in BOOLEAN, n \in BOOLEAN :
                 typeChar(c, paired, n)
           \/ \E to \in 0..Len(line), n \in BOOLEAN : moveCursor(to, n))
       => triggered'.ret =
              IF EndsWithBraces(line', cursor')
              THEN TriggerInfo(cursor' - 2, cursor', <<>>)
              ELSE null]_vars

=============================================================================
